---- MODULE Spec2Model ----
(***************************************************************************)
(* VideoTube backend: the request error/response normalization layer       *)
(* (asyncHandler, ApiError, ApiResponse, the error-handling middleware),   *)
(* the route table and the process start-up, as shown in Readme.md and     *)
(* src/db/index.js; the User model (pre-save hashing, isPasswordCorrect,   *)
(* the two token generators) and the uploadOnCloudinary helper.            *)
(*                                                                         *)
(* Five specifications share the variables: Spec (start-up and the        *)
(* request pipeline), SpecApi (the two constructors), SpecUser (one User   *)
(* document and its stored record), SpecColl (the users collection and its *)
(* unique indexes) and SpecUpload (calls of uploadOnCloudinary).           *)
(*                                                                         *)
(* JavaScript values are modelled as follows.  An omitted argument is the  *)
(* empty tuple and a supplied argument v is <<v>>.  A numeric property     *)
(* that an object does not have is 0 (JavaScript's || treats undefined and *)
(* 0 alike).  Every fault is a record with the same fields; a plain Error  *)
(* has statusCode 0 and class "Error".  A function call yields a record    *)
(* [st, out]: the state after the call and how the call ended: "thrown",   *)
(* a non-promise "value", or a promise "pending", "resolved", "rejected".  *)
(***************************************************************************)
EXTENDS Integers, Sequences, FiniteSets, TLC

VARIABLES version, middleware, proc, exitCode, routes, reqs,
          lastResponse, lastError, user, upload, db, coll

vars == <<version, middleware, proc, exitCode, routes, reqs,
          lastResponse, lastError, user, upload, db, coll>>

\* the request pipeline and the two envelopes
pipeVars == <<version, middleware, proc, exitCode, routes, reqs,
              lastResponse, lastError, db>>

(***************************************************************************)
(* Bounds                                                                  *)
(***************************************************************************)
NumRequests == 2
MaxWraps == 2
MaxStatus == 401
MaxSaves == 3
MaxAccounts == 3
NumUploads == 2

\* requests are numbered in the order in which they arrive
Requests == 1..NumRequests
\* one route whose handler is wrapped once and one wrapped MaxWraps times
Depths == {1, MaxWraps}
StatusCodes == {200, 201} \cup (399..MaxStatus) \cup {404, 500}
Versions == {1, 2, 3}
Middlewares == {"generic", "apiError"}

(***************************************************************************)
(* JavaScript helpers                                                      *)
(***************************************************************************)
NoArg == <<>>
Arg(v) == <<v>>
Default(arg, dflt) == IF arg = NoArg THEN dflt ELSE arg[1]
OrElse(n, dflt) == IF n # 0 THEN n ELSE dflt
OrElseStr(s, dflt) == IF s # "" THEN s ELSE dflt

CapturedStack == "captured at new ApiError"
Null == "null"

(***************************************************************************)
(* class ApiError extends Error                                            *)
(***************************************************************************)
\* message || "Something Went Wrong" in place of the default parameter
ApiError_MessageOr(statusCode, message, errors, stack) ==
    LET msg == Default(message, "Something Went Wrong")
        errs == Default(errors, <<>>)
        stk == Default(stack, "")
    IN  [class |-> "ApiError",
         statusCode |-> statusCode,
         errors |-> errs,
         data |-> Null,
         message |-> OrElseStr(msg, "Something Went Wrong"),
         success |-> FALSE,
         stack |-> IF stk # "" THEN stk ELSE CapturedStack,
         code |-> 0,
         status |-> 0]

\* success computed from the status code as ApiResponse does
ApiError_SuccessByStatus(statusCode, message, errors, stack) ==
    LET msg == Default(message, "Something Went Wrong")
        errs == Default(errors, <<>>)
        stk == Default(stack, "")
    IN  [class |-> "ApiError",
         statusCode |-> statusCode,
         errors |-> errs,
         data |-> Null,
         message |-> msg,
         success |-> statusCode < 400,
         stack |-> IF stk # "" THEN stk ELSE CapturedStack,
         code |-> 0,
         status |-> 0]

\* this.stack = stack without the capture branch
ApiError_StackAssigned(statusCode, message, errors, stack) ==
    LET msg == Default(message, "Something Went Wrong")
        errs == Default(errors, <<>>)
        stk == Default(stack, "")
    IN  [class |-> "ApiError",
         statusCode |-> statusCode,
         errors |-> errs,
         data |-> Null,
         message |-> msg,
         success |-> FALSE,
         stack |-> stk,
         code |-> 0,
         status |-> 0]

ApiError(statusCode, message, errors, stack) ==
    LET msg == Default(message, "Something Went Wrong")
        errs == Default(errors, <<>>)
        stk == Default(stack, "")
    IN  [class |-> "ApiError",
         statusCode |-> statusCode,
         errors |-> errs,
         data |-> Null,
         message |-> msg,
         success |-> FALSE,
         stack |-> IF stk # "" THEN stk ELSE CapturedStack,
         code |-> 0,
         status |-> 0]

\* a fault that is not an ApiError: new Error(message) with optional
\* numeric code and status properties
PlainError(message, code, status) ==
    [class |-> "Error",
     statusCode |-> 0,
     errors |-> <<>>,
     data |-> Null,
     message |-> message,
     success |-> FALSE,
     stack |-> "captured at new Error",
     code |-> code,
     status |-> status]

NoFault == PlainError("", 0, 0)
HeadersSent == PlainError("Cannot set headers after they are sent to the client", 0, 0)

Faults == {ApiError(404, Arg("Resource Not Found"), Arg(<<"email">>), NoArg),
           PlainError("db down", 503, 502),
           PlainError("secret", 0, 0)}

(***************************************************************************)
(* class ApiResponse                                                       *)
(***************************************************************************)
ApiResponse_AtMost400(statusCode, data, message) ==
    [statusCode |-> statusCode,
     data |-> data,
     message |-> Default(message, "Success"),
     success |-> statusCode <= 400]

\* this.message never assigned from the argument
ApiResponse_FixedMessage(statusCode, data, message) ==
    [statusCode |-> statusCode,
     data |-> data,
     message |-> "Success",
     success |-> statusCode < 400]

ApiResponse(statusCode, data, message) ==
    [statusCode |-> statusCode,
     data |-> data,
     message |-> Default(message, "Success"),
     success |-> statusCode < 400]

(***************************************************************************)
(* The response object                                                     *)
(***************************************************************************)
JsonBody(fields, success, message, errors) ==
    [fields |-> fields, success |-> success, message |-> message, errors |-> errors]

NoBody == JsonBody({}, FALSE, "", <<>>)
OkBody == JsonBody({"message"}, FALSE, "ok", <<>>)

Out(t, err) == [t |-> t, err |-> err]

\* res.status(s).json(b) on the response object of request t, done by `by`.
\* Once the response has been sent a further json() throws and the client
\* keeps what it was sent first.
\* a response object that lets a second answer through
ResStatusJson_Overwrite(S, t, by, s, b) ==
    [st |-> [S EXCEPT ![t].sent = TRUE, ![t].status = s, ![t].body = b,
                      ![t].writers = Append(@, by)],
     out |-> Out("value", NoFault)]

ResStatusJson(S, t, by, s, b) ==
    IF S[t].sent
    THEN [st |-> [S EXCEPT ![t].failedWrites = Append(@, by)],
          out |-> Out("thrown", HeadersSent)]
    ELSE [st |-> [S EXCEPT ![t].sent = TRUE, ![t].status = s, ![t].body = b,
                           ![t].writers = Append(@, by)],
          out |-> Out("value", NoFault)]

(***************************************************************************)
(* Error-handling middleware                                               *)
(***************************************************************************)
GenericErrorMiddleware(S, t, err) ==
    ResStatusJson(S, t, "middleware", OrElse(err.status, 500),
                  JsonBody({"success", "message"}, FALSE,
                           OrElseStr(err.message, "Internal Server Error"), <<>>))

\* the structured branch answers without the errors field
ApiErrorMiddleware_NoErrors(S, t, err) ==
    IF err.class = "ApiError"
    THEN ResStatusJson(S, t, "middleware", err.statusCode,
                       JsonBody({"success", "message"}, err.success, err.message, <<>>))
    ELSE ResStatusJson(S, t, "middleware", 500,
                       JsonBody({"success", "message"}, FALSE,
                                "Internal Server Error", <<>>))

\* the fallback branch answers with the fault's own message
ApiErrorMiddleware_LeakMessage(S, t, err) ==
    IF err.class = "ApiError"
    THEN ResStatusJson(S, t, "middleware", err.statusCode,
                       JsonBody({"success", "message", "errors"},
                                err.success, err.message, err.errors))
    ELSE ResStatusJson(S, t, "middleware", 500,
                       JsonBody({"success", "message"}, FALSE,
                                OrElseStr(err.message, "Internal Server Error"), <<>>))

ApiErrorMiddleware(S, t, err) ==
    IF err.class = "ApiError"
    THEN ResStatusJson(S, t, "middleware", err.statusCode,
                       JsonBody({"success", "message", "errors"},
                                err.success, err.message, err.errors))
    ELSE ResStatusJson(S, t, "middleware", 500,
                       JsonBody({"success", "message"}, FALSE,
                                "Internal Server Error", <<>>))

\* next(err): Express skips to the error-handling middleware of the request
\* that owns `next`; a fault thrown by that middleware stays inside Express.
ExpressNext(S, t, err) ==
    IF t \notin Requests THEN S
    ELSE LET S1 == [S EXCEPT ![t].mwRuns = @ + 1]
         IN  IF middleware = "generic"
             THEN GenericErrorMiddleware(S1, t, err).st
             ELSE ApiErrorMiddleware(S1, t, err).st

(***************************************************************************)
(* The inner request handler                                               *)
(***************************************************************************)
NoHandler == [kind |-> "none", writes |-> "none", fault |-> NoFault]

Handlers ==
    [kind : {"return", "resolve"}, writes : {"none", "sync"}, fault : {NoFault}]
    \cup [kind : {"resolve"}, writes : {"late"}, fault : {NoFault}]
    \cup [kind : {"throw", "reject"}, writes : {"none", "sync"}, fault : Faults]
    \cup [kind : {"reject"}, writes : {"late"}, fault : Faults]

Faulting(h) == h.kind \in {"throw", "reject"}
IsAsync(h) == h.kind \in {"resolve", "reject"}

HandlerWrite_Created(S, t) == ResStatusJson(S, t, "handler", 201, OkBody).st

\* what the registerUser handler does: res.status(200).json({message: "ok"})
HandlerWrite(S, t) == ResStatusJson(S, t, "handler", 200, OkBody).st

\* registerUser: an async function that answers and returns
RegisterUser == [kind |-> "resolve", writes |-> "sync", fault |-> NoFault]

\* the handler body up to its first suspension point
Base(S, n, a) ==
    LET h == S[n].h
        S1 == [S EXCEPT ![n].innerCalls = @ + 1, ![n].innerArgs = Append(@, a)]
        S2 == IF h.writes = "sync" THEN HandlerWrite(S1, a.res) ELSE S1
    IN  [st |-> S2,
         out |-> CASE h.kind = "return" -> Out("value", NoFault)
                   [] h.kind = "throw" -> Out("thrown", h.fault)
                   [] OTHER -> Out("pending", NoFault)]

(***************************************************************************)
(* asyncHandler                                                            *)
(***************************************************************************)
\* requestHandler(req, res): next is not handed on
InnerArgs_DropNext(a) == [req |-> a.req, res |-> a.res, next |-> 0]

\* the arguments the wrapper hands to the inner handler
InnerArgs(a) == [req |-> a.req, res |-> a.res, next |-> a.next]

AddReaction(S, n, x) == [S EXCEPT ![n].reactions = Append(@, x)]

\* .catch((err) => res.status(err.code || 500).json(...)) instead of next(err)
Forward_AnswerDirectly(S, n, a, err) ==
    ResStatusJson(S, a.res, "wrapper", OrElse(err.code, 500),
                  JsonBody({"success", "message"}, FALSE, err.message, <<>>)).st

\* .catch((err) => next(err))
Forward(S, n, a, err) ==
    ExpressNext([S EXCEPT ![n].nextCalls = Append(@, [err |-> err, via |-> a.next])],
                a.next, err)

\* Promise.resolve(requestHandler(req, res, next)) without .catch
WrapperV3_NoCatch(n, a, r) ==
    CASE r.out.t = "thrown" -> r
      [] r.out.t = "rejected" ->
            [st |-> [r.st EXCEPT ![n].unhandled = TRUE], out |-> Out("value", NoFault)]
      [] OTHER -> [st |-> r.st, out |-> Out("value", NoFault)]

\* .then(() => next()) added: next is also called after a normal completion
WrapperV3_NextAlways(n, a, r) ==
    CASE r.out.t = "thrown" -> r
      [] r.out.t = "pending" ->
            [st |-> AddReaction(r.st, n, [k |-> "catch", a |-> a]),
             out |-> Out("value", NoFault)]
      [] r.out.t = "rejected" ->
            [st |-> Forward(r.st, n, a, r.out.err), out |-> Out("value", NoFault)]
      [] OTHER -> [st |-> [r.st EXCEPT ![n].nextCalls =
                                Append(@, [err |-> NoFault, via |-> a.next])],
                   out |-> Out("value", NoFault)]

\* try { ... } catch (err) { next(err); throw err } around the call
WrapperV3_ForwardAndRethrow(n, a, r) ==
    CASE r.out.t = "thrown" -> [st |-> Forward(r.st, n, a, r.out.err), out |-> r.out]
      [] r.out.t = "pending" ->
            [st |-> AddReaction(r.st, n, [k |-> "catch", a |-> a]),
             out |-> Out("value", NoFault)]
      [] r.out.t = "rejected" ->
            [st |-> Forward(r.st, n, a, r.out.err), out |-> Out("value", NoFault)]
      [] OTHER -> [st |-> r.st, out |-> Out("value", NoFault)]

\* version with "return (req, res, next) => { Promise.resolve(...).catch(...) }";
\* r is the outcome of requestHandler(req, res, next)
WrapperV3(n, a, r) ==
    CASE r.out.t = "thrown" -> r
      [] r.out.t = "pending" ->
            [st |-> AddReaction(r.st, n, [k |-> "catch", a |-> a]),
             out |-> Out("value", NoFault)]
      [] r.out.t = "rejected" ->
            [st |-> Forward(r.st, n, a, r.out.err), out |-> Out("value", NoFault)]
      [] OTHER -> [st |-> r.st, out |-> Out("value", NoFault)]

\* the catch block of the second version
CatchV2(S, n, a, err) ==
    LET w == ResStatusJson(S, a.res, "wrapper", OrElse(err.code, 500),
                           JsonBody({"success", "message"}, FALSE, err.message, <<>>))
    IN  [st |-> w.st,
         out |-> IF w.out.t = "thrown" THEN Out("rejected", w.out.err)
                 ELSE Out("resolved", NoFault)]

\* second version: async (req, res, next) => { try { await fn(...) } catch ... }
WrapperV2(n, a, r) ==
    CASE r.out.t \in {"thrown", "rejected"} -> CatchV2(r.st, n, a, r.out.err)
      [] r.out.t = "pending" ->
            [st |-> AddReaction(r.st, n, [k |-> "await", a |-> a]),
             out |-> Out("pending", NoFault)]
      [] OTHER -> [st |-> r.st, out |-> Out("resolved", NoFault)]

\* calling the handler that d applications of asyncHandler produced
RECURSIVE Call(_, _, _, _)
Call(S, n, a, d) ==
    IF d = 0 THEN Base(S, n, a)
    ELSE IF version = 2 THEN WrapperV2(n, a, Call(S, n, InnerArgs(a), d - 1))
    ELSE WrapperV3(n, a, Call(S, n, InnerArgs(a), d - 1))

\* the continuations waiting on the inner handler's promise, innermost first
RECURSIVE RunReactions(_, _, _, _)
RunReactions(S, n, rs, cur) ==
    IF rs = <<>> THEN [st |-> S, out |-> cur]
    ELSE LET x == Head(rs)
             r == IF cur.t # "rejected"
                  THEN [st |-> S, out |-> Out("resolved", NoFault)]
                  ELSE IF x.k = "catch"
                  THEN [st |-> Forward(S, n, x.a, cur.err), out |-> Out("resolved", NoFault)]
                  ELSE CatchV2(S, n, x.a, cur.err)
         IN  RunReactions(r.st, n, Tail(rs), r.out)

\* what asyncHandler(f) evaluates to; the first version has no return
UndefinedFn == [callable |-> FALSE, wraps |-> 0]
BaseFn == [callable |-> TRUE, wraps |-> 0]

AsyncHandler(v, f) ==
    IF v = 1 THEN UndefinedFn
    ELSE [callable |-> TRUE, wraps |-> f.wraps + 1]

RECURSIVE Wrapped(_, _)
Wrapped(v, d) == IF d = 0 THEN BaseFn ELSE AsyncHandler(v, Wrapped(v, d - 1))

(***************************************************************************)
(* The User model: userSchema, its pre("save") hook and its methods        *)
(*                                                                         *)
(* A password value is the plaintext it started from and the salts of the  *)
(* bcrypt.hash calls applied to it since: no salt for a plaintext, one for *)
(* a hash, two for the hash of a hash string.                              *)
(***************************************************************************)
Plains == {"pw1", "pw2"}
Names == {"John Doe", "Jane Doe"}
UserId == "u1"
UserEmail == "john@example.com"
UserName == "johndoe"

Plain(p) == [plain |-> p, salts |-> <<>>]
IsHash(v) == v.salts # <<>>

\* bcrypt.hash(v, 10): a fresh salt every call
BcryptHash(v, salt) == [plain |-> v.plain, salts |-> Append(v.salts, salt)]

\* bcrypt.compare(candidate, hash): re-hashes the candidate with the salt
\* kept in the hash; FALSE when the second argument is not a hash
BcryptCompare(candidate, hash) ==
    /\ IsHash(hash)
    /\ candidate = [plain |-> hash.plain,
                    salts |-> SubSeq(hash.salts, 1, Len(hash.salts) - 1)]

\* process.env
Env == [ACCESS_TOKEN_SECRET |-> "access-secret",
        ACCESS_TOKEN_EXPIRY |-> "1d",
        REFRESH_TOKEN_SECRET |-> "refresh-secret",
        REFRESH_TOKEN_EXPIRY |-> "10d"]

\* jwt.sign(payload, secretOrPrivateKey, options)
JwtSign(payload, secret, options) ==
    [payload |-> payload, secret |-> secret, expiresIn |-> options.expiresIn]

NoDoc == [exists |-> FALSE, isNew |-> FALSE, password |-> Plain(""),
          fullName |-> "", modified |-> {}]

\* new User({username, email, fullName, password}): every path set is modified
NewDoc(p, n) == [exists |-> TRUE, isNew |-> TRUE, password |-> Plain(p),
                 fullName |-> n, modified |-> {"password", "fullName"}]

\* User.findById: a document built from the stored record, nothing modified
LoadedDoc(rec) == [exists |-> TRUE, isNew |-> FALSE, password |-> rec.password,
                   fullName |-> rec.fullName, modified |-> {}]

\* doc.password = p: Mongoose marks the path modified when the value differs
SetPassword(d, p) ==
    [d EXCEPT !.password = Plain(p),
              !.modified = IF Plain(p) # d.password THEN @ \cup {"password"} ELSE @]

SetFullName(d, n) ==
    [d EXCEPT !.fullName = n,
              !.modified = IF n # d.fullName THEN @ \cup {"fullName"} ELSE @]

IsModified(d, path) == path \in d.modified

\* the hook up to its first suspension: return next(), or await bcrypt.hash
PreSaveHook(d) == IF ~IsModified(d, "password") THEN "next" ELSE "hash"

HookResume_KeepPlain(d, salt) == d

\* this.password = <the hash>, once bcrypt.hash has resolved
HookResume(d, salt) == [d EXCEPT !.password = BcryptHash(@, salt)]

HookSettled_IgnoreFailure(failed) == "write"

\* the hook is an async function: when its promise rejects, Mongoose ends
\* the save with that error; when it resolves the save goes on to the write
HookSettled(failed) == IF failed THEN "rejected" ELSE "write"

IsPasswordCorrect_PlainEquals(d, password) == password = d.password

\* userSchema.methods.isPasswordCorrect
IsPasswordCorrect(d, password) == BcryptCompare(password, d.password)

\* userSchema.methods.generateAccessToken
GenerateAccessToken(d) ==
    JwtSign([_id |-> UserId, email |-> UserEmail, username |-> UserName,
             fullName |-> d.fullName],
            Env.ACCESS_TOKEN_SECRET,
            [expiresIn |-> Env.ACCESS_TOKEN_EXPIRY])

GenerateRefreshToken_AccessSecret(d) ==
    JwtSign([_id |-> UserId],
            Env.ACCESS_TOKEN_SECRET,
            [expiresIn |-> Env.REFRESH_TOKEN_EXPIRY])

\* userSchema.methods.generateRefreshToken
GenerateRefreshToken(d) ==
    JwtSign([_id |-> UserId],
            Env.REFRESH_TOKEN_SECRET,
            [expiresIn |-> Env.REFRESH_TOKEN_EXPIRY])

NoSave == [outcome |-> "none", wasModified |-> FALSE, before |-> Plain(""),
           hashed |-> 0, hashFailed |-> FALSE, storedBefore |-> <<>>,
           after |-> Plain(""), storedAfter |-> <<>>,
           signals |-> 0, continued |-> 0, writes |-> 0, atWrite |-> Plain("")]

Continue_EverySignal(called) == TRUE

\* the next that Mongoose hands to the hook works once: a signal continues
\* the save only when none was given before
Continue(called) == ~called

\* how many times the save continues when the hook signals `signals` times
\* (next() called, the returned promise resolved)
Continuations(signals) ==
    (IF signals >= 1 /\ Continue(FALSE) THEN 1 ELSE 0)
        + (IF signals >= 2 /\ Continue(TRUE) THEN 1 ELSE 0)

\* signals, continued, writes: how often the hook signalled continuation,
\* how often the save went on to the persist step and how often that step
\* ran; atWrite: the password field when the persist step started
\* lastSave is the most recent save: whether the password path was modified
\* and what the field and the stored record were when it started, how many
\* times it hashed, how it ended and what the field and the stored record
\* were when it ended
\* no document in memory, nothing in the collection; lastCall is the most
\* recent method call on the document and what it returned, until the
\* document is used again
NoUser == [doc |-> NoDoc, pc |-> "idle", stored |-> <<>>,
           saves |-> 0, hashes |-> 0, sinceChange |-> 0,
           assigned |-> {}, lastHashed |-> <<>>,
           lastSave |-> NoSave, lastCall |-> <<>>]

(***************************************************************************)
(* uploadOnCloudinary and the local temporary files                        *)
(***************************************************************************)
Uploads == 1..NumUploads
\* multer.diskStorage: destination "./public/temp", filename file.originalname
OriginalNames == {"a.png", "b.png"}
StoredAt(originalname) ==
    IF originalname = "a.png" THEN "public/temp/a.png" ELSE "public/temp/b.png"
LocalPaths == {StoredAt(n) : n \in OriginalNames}
\* what the host answers to an upload
HostResponses == {[url |-> "http://res.cloudinary.com/demo/1", resource_type |-> "image"],
                  [url |-> "http://res.cloudinary.com/demo/2", resource_type |-> "video"]}
\* localFilePath: not passed, null, the empty string, or a path
PathArgs == {NoArg, Arg(Null), Arg("")} \cup {Arg(f) : f \in LocalPaths}

Provided_Always(localFilePath) == TRUE

\* the negation of !localFilePath
Provided(localFilePath) ==
    /\ localFilePath # NoArg
    /\ localFilePath[1] # Null
    /\ localFilePath[1] # ""

\* the path as the callee reads it; a missing or null one names no file
PathOf(localFilePath) ==
    IF localFilePath = NoArg \/ localFilePath[1] = Null THEN ""
    ELSE localFilePath[1]

\* fs.unlinkSync(path): removes the file; throws when there is none, or
\* when the file system refuses the deletion
UnlinkSync(files, path, refused) ==
    IF path \in files /\ ~refused
    THEN [files |-> files \ {path}, threw |-> FALSE]
    ELSE [files |-> files, threw |-> TRUE]

SuccessPath_Unlink(files, path) == files \ {path}

\* console.log(...); return response: the local files are left alone
SuccessPath(files, path) == files

\* existed: the path named a local file when the call was made; host: what
\* the host answered; value: the response the call returned; failed: the
\* upload rejected; leftBehind: the file was there when the call returned;
\* removedFrom: the other calls in flight on the path this call's cleanup
\* deleted
NoCall == [pc |-> "none", path |-> NoArg, remoteCalls |-> 0,
           result |-> "none", unlinks |-> 0,
           existed |-> FALSE, host |-> <<>>, value |-> <<>>,
           failed |-> FALSE, leftBehind |-> FALSE, removedFrom |-> {}]

\* files: the local files that exist; calls: the calls of uploadOnCloudinary
NoUploads(files) == [files |-> files, calls |-> [c \in Uploads |-> NoCall]]

(***************************************************************************)
(* The users collection: the schema's setters and its unique indexes       *)
(*                                                                         *)
(* A username or an email is a sequence of characters.                     *)
(***************************************************************************)
LowerChar(ch) ==
    CASE ch = "J" -> "j" [] ch = "O" -> "o" [] ch = "A" -> "a" [] ch = "L" -> "l"
      [] OTHER -> ch

\* lowercase: true
Lower(w) == [i \in DOMAIN w |-> LowerChar(w[i])]

RECURSIVE TrimLeft(_)
TrimLeft(w) == IF w # <<>> /\ Head(w) = " " THEN TrimLeft(Tail(w)) ELSE w

RECURSIVE TrimRight(_)
TrimRight(w) ==
    IF w # <<>> /\ w[Len(w)] = " " THEN TrimRight(SubSeq(w, 1, Len(w) - 1)) ELSE w

\* trim: true
Trim(w) == TrimRight(TrimLeft(w))

Normalize_TrimOnly(w) == Trim(w)

\* the value a username or email path gets when it is set
Normalize(w) == Lower(Trim(w))

\* what a client may send as username or as email
RawWords == {<<"j", "o">>, <<"J", "o">>, <<" ", "j", "o", " ">>,
             <<"A", "L", " ">>, <<" ">>}

\* required: true refuses an empty string
Valid(d) == d.username # <<>> /\ d.email # <<>>

\* the unique indexes on username and on email: the other stored records
\* that have the key of d
Conflicts(docs, d) ==
    {x \in docs : x.id # d.id /\ (x.username = d.username \/ x.email = d.email)}

\* the outcome of writing d into docs
WriteDoc(docs, d) ==
    IF ~Valid(d) THEN [docs |-> docs, outcome |-> "invalid"]
    ELSE IF Conflicts(docs, d) # {} THEN [docs |-> docs, outcome |-> "duplicate"]
    ELSE [docs |-> {x \in docs : x.id # d.id} \cup {d}, outcome |-> "written"]

NoOp == [kind |-> "none", id |-> 0, username |-> <<>>, email |-> <<>>,
         outcome |-> "none", before |-> {}]

\* docs: the stored records; lastOp: the most recent insert or save, what
\* the client sent, how it ended and the records stored before it
NoColl == [docs |-> {}, nextId |-> 1, lastOp |-> NoOp]

(***************************************************************************)
(* State                                                                   *)
(***************************************************************************)
NewReq == [pc |-> "new", h |-> NoHandler, depth |-> 0,
           innerCalls |-> 0, innerArgs |-> <<>>,
           sent |-> FALSE, status |-> 0, body |-> NoBody,
           writers |-> <<>>, failedWrites |-> <<>>,
           nextCalls |-> <<>>, reactions |-> <<>>,
           escaped |-> FALSE, unhandled |-> FALSE, mwRuns |-> 0]

\* the database connection: how many times mongoose.connect was called and
\* how the call ended
NoDb == [attempts |-> 0, connected |-> FALSE, failed |-> FALSE]

Init ==
    /\ version \in Versions
    /\ middleware \in Middlewares
    /\ proc = "loading"
    /\ exitCode = 0
    /\ routes = <<>>
    /\ reqs = [n \in Requests |-> NewReq]
    /\ lastResponse = <<>>
    /\ lastError = <<>>
    /\ user = NoUser
    /\ upload = NoUploads({})
    /\ db = NoDb
    /\ coll = NoColl

(***************************************************************************)
(* Start-up                                                                *)
(***************************************************************************)
RouteTable == [d \in Depths |-> Wrapped(version, d)]

\* router.route("/register").post(registerUser) with a function
LoadRoutes ==
    /\ proc = "loading"
    /\ \A d \in Depths : RouteTable[d].callable
    /\ routes' = RouteTable
    /\ proc' = "connecting"
    /\ UNCHANGED <<version, middleware, exitCode, reqs, lastResponse, lastError>>
    /\ UNCHANGED <<user, upload, db, coll>>

\* router.route("/register").post(undefined) throws while the module loads
LoadRoutesFail ==
    /\ proc = "loading"
    /\ \E d \in Depths : ~RouteTable[d].callable
    /\ routes' = RouteTable
    /\ proc' = "exited"
    /\ exitCode' = 1
    /\ UNCHANGED <<version, middleware, reqs, lastResponse, lastError>>
    /\ UNCHANGED <<user, upload, db, coll>>

ConnectDB_LogOnly(outcome) == "resolved"

\* connectDB: resolves when mongoose.connect resolved; when it rejected the
\* catch block calls process.exit(1) and the function never returns
ConnectDB(outcome) == IF outcome = "resolved" THEN "resolved" ELSE "exit"

\* connectDB().then(() => app.listen(...)): the callback runs when connectDB
\* resolved; process.exit(1) ends the process with code 1
AfterConnect(outcome) ==
    IF ConnectDB(outcome) = "resolved" THEN [proc |-> "listening", exitCode |-> 0]
    ELSE [proc |-> "exited", exitCode |-> 1]

\* mongoose.connect resolves
ConnectOk ==
    /\ proc = "connecting"
    /\ proc' = AfterConnect("resolved").proc
    /\ exitCode' = AfterConnect("resolved").exitCode
    /\ db' = [db EXCEPT !.attempts = @ + 1, !.connected = TRUE]
    /\ UNCHANGED <<version, middleware, routes, reqs, lastResponse, lastError>>
    /\ UNCHANGED <<user, upload, coll>>

\* mongoose.connect rejects: the catch block calls process.exit(1)
ConnectFail ==
    /\ proc = "connecting"
    /\ proc' = AfterConnect("rejected").proc
    /\ exitCode' = AfterConnect("rejected").exitCode
    /\ db' = [db EXCEPT !.attempts = @ + 1, !.failed = TRUE]
    /\ UNCHANGED <<version, middleware, routes, reqs, lastResponse, lastError>>
    /\ UNCHANGED <<user, upload, coll>>

(***************************************************************************)
(* Requests                                                                *)
(***************************************************************************)
\* Express calls the route's handler with the request's own (req, res, next);
\* a fault thrown out of the handler is caught by Express and sent to the
\* error-handling middleware; a returned promise is ignored
Dispatch(S, n) ==
    LET a == [req |-> n, res |-> n, next |-> n]
        r == Call(S, n, a, routes[S[n].depth].wraps)
        pend == IsAsync(S[n].h) /\ r.st[n].innerCalls > 0
        S1 == [r.st EXCEPT ![n].pc = IF pend THEN "pending" ELSE "done"]
    IN  CASE r.out.t = "thrown" ->
                ExpressNext([S1 EXCEPT ![n].escaped = TRUE], n, r.out.err)
          [] r.out.t = "rejected" -> [S1 EXCEPT ![n].unhandled = TRUE]
          [] OTHER -> S1

Accepting_FromLoad(p) == p \in {"connecting", "listening"}

\* app.listen is called in the .then callback only: requests are taken once
\* the process listens
Accepting(p) == p = "listening"

Receive(n) ==
    /\ Accepting(proc)
    /\ reqs[n].pc = "new"
    /\ \A m \in Requests : m < n => reqs[m].pc # "new"
    /\ \E h \in Handlers, d \in Depths :
          reqs' = Dispatch([reqs EXCEPT ![n].h = h, ![n].depth = d], n)
    /\ UNCHANGED <<version, middleware, proc, exitCode, routes, lastResponse, lastError>>
    /\ UNCHANGED <<user, upload, db, coll>>

\* request bodies that express.json({limit: "16kb"}) does not let through
RefusedBodies == {"malformed JSON", "JSON above 16kb"}

\* express.json: the fault it passes to next(err) instead of calling the route
JsonParser(body) ==
    IF body = "malformed JSON" THEN PlainError("Unexpected token in JSON", 0, 400)
    ELSE IF body = "JSON above 16kb" THEN PlainError("request entity too large", 0, 413)
    ELSE NoFault

\* POST /register with a body the parser refuses: app.use(express.json(...))
\* comes before the router, the fault goes to the error-handling middleware
\* and the route's handler is not called
ReceiveRefused(n) ==
    /\ Accepting(proc)
    /\ reqs[n].pc = "new"
    /\ \A m \in Requests : m < n => reqs[m].pc # "new"
    /\ \E b \in RefusedBodies :
          reqs' = [ExpressNext(reqs, n, JsonParser(b)) EXCEPT ![n].pc = "refused"]
    /\ UNCHANGED <<version, middleware, proc, exitCode, routes, lastResponse, lastError>>
    /\ UNCHANGED <<user, upload, db, coll>>

\* the inner handler's promise settles and the continuations run
Settled(S, n) ==
    LET h == S[n].h
        S1 == IF h.writes = "late" THEN HandlerWrite(S, S[n].innerArgs[1].res) ELSE S
        cur == IF h.kind = "reject" THEN Out("rejected", h.fault)
               ELSE Out("resolved", NoFault)
        r == RunReactions([S1 EXCEPT ![n].reactions = <<>>], n, S1[n].reactions, cur)
    IN  [r.st EXCEPT ![n].pc = "done",
                     ![n].unhandled = @ \/ (r.out.t = "rejected")]

Settle(n) ==
    /\ proc = "listening"
    /\ reqs[n].pc = "pending"
    /\ reqs' = Settled(reqs, n)
    /\ UNCHANGED <<version, middleware, proc, exitCode, routes, lastResponse, lastError>>
    /\ UNCHANGED <<user, upload, db, coll>>

\* a rejection nobody handles may end the process
UnhandledRejection ==
    /\ proc = "listening"
    /\ \E n \in Requests : reqs[n].unhandled
    /\ proc' = "exited"
    /\ exitCode' = 1
    /\ UNCHANGED <<version, middleware, routes, reqs, lastResponse, lastError>>
    /\ UNCHANGED <<user, upload, db, coll>>

(***************************************************************************)
(* Constructing the two envelopes                                          *)
(***************************************************************************)
Payloads == {Null, "user: John Doe"}
MessageArgs == {NoArg, Arg(""), Arg("Bad Request")}
ErrorsArgs == {NoArg, Arg(<<"email">>)}
StackArgs == {NoArg, Arg(""), Arg("trace from caller")}

\* new ApiResponse(statusCode, data[, message])
NewApiResponse ==
    /\ \E s \in StatusCodes, d \in Payloads, m \in MessageArgs :
          lastResponse' = <<[statusCode |-> s, data |-> d, message |-> m,
                             obj |-> ApiResponse(s, d, m)]>>
    /\ UNCHANGED <<version, middleware, proc, exitCode, routes, reqs, lastError>>
    /\ UNCHANGED <<user, upload, db, coll>>

\* new ApiError(statusCode[, message[, errors[, stack]]])
NewApiError ==
    /\ \E s \in StatusCodes, m \in MessageArgs, e \in ErrorsArgs, k \in StackArgs :
          lastError' = <<[statusCode |-> s, message |-> m, errors |-> e, stack |-> k,
                          obj |-> ApiError(s, m, e, k)]>>
    /\ UNCHANGED <<version, middleware, proc, exitCode, routes, reqs, lastResponse>>
    /\ UNCHANGED <<user, upload, db, coll>>

NextApi ==
    \/ NewApiResponse
    \/ NewApiError

\* the constructors do not depend on the wrapper or the middleware in use
InitApi == Init /\ version = 3 /\ middleware = "apiError"

SpecApi == InitApi /\ [][NextApi]_vars

Next ==
    \/ LoadRoutes
    \/ LoadRoutesFail
    \/ ConnectOk
    \/ ConnectFail
    \/ \E n \in Requests : Receive(n)
    \/ \E n \in Requests : ReceiveRefused(n)
    \/ \E n \in Requests : Settle(n)
    \/ UnhandledRejection

Spec == Init /\ [][Next]_vars

(***************************************************************************)
(* One User document: creation, loads, assignments, saves, methods         *)
(***************************************************************************)
\* new User({..., password: p})
CreateUser ==
    /\ user.pc = "idle"
    /\ ~user.doc.exists
    /\ \E p \in Plains, n \in Names :
          user' = [user EXCEPT !.doc = NewDoc(p, n), !.lastCall = <<>>,
                               !.sinceChange = 0,
                               !.assigned = @ \cup {p}]
    /\ UNCHANGED <<pipeVars, upload, coll>>

\* User.findById(...)
LoadUser ==
    /\ user.pc = "idle"
    /\ user.stored # <<>>
    /\ user' = [user EXCEPT !.doc = LoadedDoc(user.stored[1]), !.lastCall = <<>>,
                            !.sinceChange = 0]
    /\ UNCHANGED <<pipeVars, upload, coll>>

\* user.password = p
AssignPassword ==
    /\ user.pc = "idle"
    /\ user.doc.exists
    /\ \E p \in Plains :
          user' = [user EXCEPT !.doc = SetPassword(@, p), !.lastCall = <<>>,
                               !.sinceChange = IF Plain(p) # user.doc.password
                                               THEN 0 ELSE @,
                               !.assigned = @ \cup {p}]
    /\ UNCHANGED <<pipeVars, upload, coll>>

\* user.fullName = n
AssignFullName ==
    /\ user.pc = "idle"
    /\ user.doc.exists
    /\ \E n \in Names : user' = [user EXCEPT !.doc = SetFullName(@, n), !.lastCall = <<>>]
    /\ UNCHANGED <<pipeVars, upload, coll>>

\* user.save(): Mongoose runs the pre("save") hook up to return next() or
\* up to await bcrypt.hash(...)
SaveStart ==
    /\ user.pc = "idle"
    /\ user.doc.exists
    /\ user.saves < MaxSaves
    /\ user' = [user EXCEPT
          !.saves = @ + 1, !.lastCall = <<>>,
          !.lastSave = [outcome |-> "running",
                        wasModified |-> IsModified(user.doc, "password"),
                        before |-> user.doc.password,
                        hashed |-> 0, hashFailed |-> FALSE,
                        storedBefore |-> user.stored,
                        after |-> user.doc.password,
                        storedAfter |-> user.stored,
                        signals |-> IF PreSaveHook(user.doc) = "next" THEN 2 ELSE 0,
                        continued |-> IF PreSaveHook(user.doc) = "next"
                                      THEN Continuations(2) ELSE 0,
                        writes |-> 0,
                        atWrite |-> user.doc.password],
          !.pc = IF PreSaveHook(user.doc) = "next" THEN "writing" ELSE "hashing"]
    /\ UNCHANGED <<pipeVars, upload, coll>>

\* bcrypt.hash resolves and the hook assigns this.password
HashResolved ==
    /\ user.pc = "hashing"
    /\ LET salt == user.hashes + 1
       IN  user' = [user EXCEPT
              !.doc = HookResume(@, salt),
              !.hashes = salt,
              !.sinceChange = @ + 1,
              !.lastHashed = <<[input |-> user.doc.password,
                                result |-> BcryptHash(user.doc.password, salt)]>>,
              !.lastSave.hashed = @ + 1,
              !.lastSave.signals = @ + 1,
              !.lastSave.continued = Continuations(1),
              !.lastSave.atWrite = HookResume(user.doc, salt).password,
              !.pc = IF HookSettled(FALSE) = "write" THEN "writing" ELSE "idle"]
    /\ UNCHANGED <<pipeVars, upload, coll>>

\* bcrypt.hash rejects: the hook's promise rejects
HashRejected ==
    /\ user.pc = "hashing"
    /\ user' = [user EXCEPT
          !.lastSave.hashFailed = TRUE,
          !.lastSave.after = user.doc.password,
          !.lastSave.outcome = IF HookSettled(TRUE) = "rejected"
                               THEN "hashError" ELSE @,
          !.pc = IF HookSettled(TRUE) = "rejected" THEN "idle" ELSE "writing"]
    /\ UNCHANGED <<pipeVars, upload, coll>>

\* what the write sends: the whole document when new, else the modified paths
Written(d, stored) ==
    IF d.isNew THEN [password |-> d.password, fullName |-> d.fullName]
    ELSE [password |-> IF IsModified(d, "password") THEN d.password
                       ELSE stored[1].password,
          fullName |-> IF IsModified(d, "fullName") THEN d.fullName
                       ELSE stored[1].fullName]

\* the persist step: the database accepts the write; the save resolves
WriteOk ==
    /\ user.pc = "writing"
    /\ user' = [user EXCEPT
          !.stored = <<Written(user.doc, user.stored)>>,
          !.doc.isNew = FALSE,
          !.doc.modified = {},
          !.lastSave.outcome = "saved",
          !.lastSave.writes = @ + 1,
          !.lastSave.after = user.doc.password,
          !.lastSave.storedAfter = <<Written(user.doc, user.stored)>>,
          !.pc = "idle"]
    /\ UNCHANGED <<pipeVars, upload, coll>>

\* the database rejects the write (a duplicate of a unique username or
\* email, a lost connection): the save rejects, the paths stay modified
WriteFail ==
    /\ user.pc = "writing"
    /\ user.doc.isNew \/ user.doc.modified # {}
    /\ user' = [user EXCEPT !.lastSave.outcome = "writeError",
                            !.lastSave.writes = @ + 1,
                            !.lastSave.after = user.doc.password,
                            !.pc = "idle"]
    /\ UNCHANGED <<pipeVars, upload, coll>>

Candidates ==
    {Plain(p) : p \in Plains} \cup {user.doc.password}
        \cup {user.stored[i].password : i \in DOMAIN user.stored}

\* await user.isPasswordCorrect(candidate)
CheckPassword ==
    /\ user.pc = "idle"
    /\ user.doc.exists
    /\ \E c \in Candidates :
          user' = [user EXCEPT !.lastCall =
                      <<[method |-> "isPasswordCorrect",
                         candidate |-> c,
                         result |-> IsPasswordCorrect(user.doc, c)]>>]
    /\ UNCHANGED <<pipeVars, upload, coll>>

\* user.generateAccessToken()
IssueAccessToken ==
    /\ user.pc = "idle"
    /\ user.doc.exists
    /\ user' = [user EXCEPT !.lastCall =
                   <<[method |-> "generateAccessToken",
                      result |-> GenerateAccessToken(user.doc)]>>]
    /\ UNCHANGED <<pipeVars, upload, coll>>

\* user.generateRefreshToken()
IssueRefreshToken ==
    /\ user.pc = "idle"
    /\ user.doc.exists
    /\ user' = [user EXCEPT !.lastCall =
                   <<[method |-> "generateRefreshToken",
                      result |-> GenerateRefreshToken(user.doc)]>>]
    /\ UNCHANGED <<pipeVars, upload, coll>>

NextUser ==
    \/ CreateUser
    \/ LoadUser
    \/ AssignPassword
    \/ AssignFullName
    \/ SaveStart
    \/ HashResolved
    \/ HashRejected
    \/ WriteOk
    \/ WriteFail
    \/ CheckPassword
    \/ IssueAccessToken
    \/ IssueRefreshToken

\* the User model does not depend on the wrapper or the middleware in use
InitUser == Init /\ version = 3 /\ middleware = "apiError"

SpecUser == InitUser /\ [][NextUser]_vars

(***************************************************************************)
(* Calls of uploadOnCloudinary                                             *)
(***************************************************************************)
\* the call up to return null or up to await cloudinary.uploader.upload(...)
UploadCall(c) ==
    /\ upload.calls[c].pc = "none"
    /\ \A b \in Uploads : b < c => upload.calls[b].pc # "none"
    /\ \E a \in PathArgs :
          upload' = [upload EXCEPT !.calls[c] =
             IF ~Provided(a)
             THEN [@ EXCEPT !.pc = "done", !.path = a, !.result = "null",
                            !.existed = PathOf(a) \in upload.files,
                            !.leftBehind = PathOf(a) \in upload.files]
             ELSE [@ EXCEPT !.pc = "uploading", !.path = a,
                            !.existed = PathOf(a) \in upload.files,
                            !.remoteCalls = @ + 1]]
    /\ UNCHANGED <<pipeVars, user, coll>>

\* multer stores a request's file under its original name; storing over a
\* file of the same name leaves the set of files as it is
MulterStore ==
    /\ \E n \in OriginalNames :
          /\ StoredAt(n) \notin upload.files
          /\ upload' = [upload EXCEPT !.files = @ \cup {StoredAt(n)}]
    /\ UNCHANGED <<pipeVars, user, coll>>

\* the upload resolves (the host read the file the call was made with): the
\* response is logged and returned
UploadResolved(c) ==
    /\ upload.calls[c].pc = "uploading"
    /\ upload.calls[c].existed
    /\ \E r \in HostResponses :
          LET files == SuccessPath(upload.files, PathOf(upload.calls[c].path))
          IN  upload' = [upload EXCEPT
                 !.files = files,
                 !.calls[c].pc = "done",
                 !.calls[c].result = "response",
                 !.calls[c].host = <<r>>,
                 !.calls[c].value = <<r>>,
                 !.calls[c].leftBehind = PathOf(upload.calls[c].path) \in files]
    /\ UNCHANGED <<pipeVars, user, coll>>

\* the upload rejects (the file cannot be read, the host refuses, the
\* network fails): the catch block unlinks the local file and returns null;
\* when unlinkSync throws, the call's promise rejects
UploadRejected(c) ==
    /\ upload.calls[c].pc = "uploading"
    /\ \E refused \in BOOLEAN :
          LET path == PathOf(upload.calls[c].path)
              u == UnlinkSync(upload.files, path, refused)
          IN  upload' = [upload EXCEPT
                 !.files = u.files,
                 !.calls[c].pc = "done",
                 !.calls[c].failed = TRUE,
                 !.calls[c].unlinks = @ + 1,
                 !.calls[c].leftBehind = path \in u.files,
                 !.calls[c].removedFrom =
                     IF u.threw THEN {}
                     ELSE {b \in Uploads \ {c} :
                             /\ upload.calls[b].pc = "uploading"
                             /\ PathOf(upload.calls[b].path) = path},
                 !.calls[c].result = IF u.threw THEN "rejected" ELSE "null"]
    /\ UNCHANGED <<pipeVars, user, coll>>

NextUpload ==
    \/ MulterStore
    \/ \E c \in Uploads : UploadCall(c)
    \/ \E c \in Uploads : UploadResolved(c)
    \/ \E c \in Uploads : UploadRejected(c)

\* any of the temporary files may exist when the first call is made
InitUpload ==
    /\ version = 3 /\ middleware = "apiError"
    /\ proc = "loading" /\ exitCode = 0 /\ routes = <<>>
    /\ reqs = [n \in Requests |-> NewReq]
    /\ lastResponse = <<>> /\ lastError = <<>>
    /\ user = NoUser
    /\ db = NoDb
    /\ coll = NoColl
    /\ \E files \in SUBSET LocalPaths : upload = NoUploads(files)

SpecUpload == InitUpload /\ [][NextUpload]_vars

(***************************************************************************)
(* Inserts and saves on the users collection                               *)
(***************************************************************************)
\* new User({username: u, email: e, ...}).save()
InsertUser ==
    /\ coll.nextId <= MaxAccounts
    /\ \E u \in RawWords, e \in RawWords :
          LET d == [id |-> coll.nextId, username |-> Normalize(u),
                    email |-> Normalize(e)]
              w == WriteDoc(coll.docs, d)
          IN  coll' = [docs |-> w.docs,
                       nextId |-> IF w.outcome = "written" THEN coll.nextId + 1
                                  ELSE coll.nextId,
                       lastOp |-> [kind |-> "insert", id |-> d.id,
                                   username |-> u, email |-> e,
                                   outcome |-> w.outcome, before |-> coll.docs]]
    /\ UNCHANGED <<pipeVars, user, upload>>

\* doc.username = u; doc.email = e; doc.save() on a stored record
UpdateUser ==
    /\ \E x \in coll.docs, u \in RawWords, e \in RawWords :
          LET d == [id |-> x.id, username |-> Normalize(u), email |-> Normalize(e)]
              w == WriteDoc(coll.docs, d)
          IN  coll' = [coll EXCEPT
                 !.docs = w.docs,
                 !.lastOp = [kind |-> "save", id |-> d.id,
                             username |-> u, email |-> e,
                             outcome |-> w.outcome, before |-> coll.docs]]
    /\ UNCHANGED <<pipeVars, user, upload>>

NextColl ==
    \/ InsertUser
    \/ UpdateUser

\* the collection does not depend on the wrapper or the middleware in use
InitColl == Init /\ version = 3 /\ middleware = "apiError"

SpecColl == InitColl /\ [][NextColl]_vars

(***************************************************************************)
(* Properties                                                              *)
(***************************************************************************)
Done(n) == reqs[n].pc = "done"
Faulted(n) == Done(n) /\ Faulting(reqs[n].h)
Completed(n) == Done(n) /\ ~Faulting(reqs[n].h)
OwnArgs(n) == [req |-> n, res |-> n, next |-> n]
WrapperWrote(n) ==
    \/ \E i \in DOMAIN reqs[n].writers : reqs[n].writers[i] = "wrapper"
    \/ \E i \in DOMAIN reqs[n].failedWrites : reqs[n].failedWrites[i] = "wrapper"
GenericBody == JsonBody({"success", "message"}, FALSE, "Internal Server Error", <<>>)
StructuredBody(f) == JsonBody({"success", "message", "errors"}, f.success, f.message, f.errors)

\* C1: whenever the inner handler of a wrapped handler throws synchronously
\* or returns a promise that rejects, the wrapper calls next(err) exactly
\* once with that fault and the fault leaves the wrapper neither as a thrown
\* exception nor as an unhandled rejection.  Stated for the wrapper the
\* controller imports (Promise.resolve(...).catch((err) => next(err))).
C1_ForwardedExactlyOnce ==
    \A n \in Requests :
        (version = 3 /\ Faulted(n)) =>
            /\ Len(reqs[n].nextCalls) = 1
            /\ reqs[n].nextCalls[1].err = reqs[n].h.fault
            /\ ~reqs[n].escaped
            /\ ~reqs[n].unhandled

\* C2 (as claimed): every fault raised inside a wrapped handler is answered
\* as the centralized handler prescribes: an ApiError with its own
\* statusCode and the body {success, message, errors}, any other fault with
\* 500, success = false and the generic message.
C2_Original ==
    \A n \in Requests :
        Faulted(n) =>
            /\ reqs[n].sent
            /\ IF reqs[n].h.fault.class = "ApiError"
               THEN /\ reqs[n].status = reqs[n].h.fault.statusCode
                    /\ reqs[n].body = StructuredBody(reqs[n].h.fault)
               ELSE /\ reqs[n].status = 500
                    /\ reqs[n].body = GenericBody

\* C2 (amended): the same, for a handler that had not yet sent a response,
\* wrapped by the forwarding asyncHandler, in an application whose
\* error-handling middleware is the one that tests instanceof ApiError.
C2_Theorem ==
    \A n \in Requests :
        (version = 3 /\ middleware = "apiError" /\ Faulted(n)
            /\ reqs[n].h.writes = "none") =>
            /\ reqs[n].sent
            /\ reqs[n].writers = <<"middleware">>
            /\ IF reqs[n].h.fault.class = "ApiError"
               THEN /\ reqs[n].status = reqs[n].h.fault.statusCode
                    /\ reqs[n].body = StructuredBody(reqs[n].h.fault)
               ELSE /\ reqs[n].status = 500
                    /\ reqs[n].body = GenericBody

C2_Witness ==
    \E n \in Requests :
        /\ version = 3 /\ middleware = "apiError" /\ Faulted(n)
        /\ reqs[n].h.writes = "none"
        /\ reqs[n].h.fault.class = "ApiError"
        /\ reqs[n].status = 404
        /\ reqs[n].body.errors = <<"email">>

\* C3 (as claimed): two faults that are not ApiErrors, raised inside wrapped
\* handlers that had not answered yet, get the same status and body: 500
\* and the generic message, nothing of the fault itself.
C3_Original ==
    \A n, m \in Requests :
        (/\ Faulted(n) /\ Faulted(m)
         /\ reqs[n].h.fault.class = "Error" /\ reqs[m].h.fault.class = "Error"
         /\ reqs[n].h.writes = "none" /\ reqs[m].h.writes = "none") =>
            /\ reqs[n].status = reqs[m].status
            /\ reqs[n].body = reqs[m].body
            /\ reqs[n].status = 500
            /\ reqs[n].body = GenericBody

\* C3 (amended): the same under the forwarding asyncHandler and the
\* middleware that tests instanceof ApiError; a handler that had already
\* answered keeps its own answer, which carries nothing of the fault either.
C3_Theorem ==
    \A n, m \in Requests :
        (/\ version = 3 /\ middleware = "apiError"
         /\ Faulted(n) /\ Faulted(m)
         /\ reqs[n].h.fault.class = "Error" /\ reqs[m].h.fault.class = "Error"
         /\ (reqs[n].h.writes = "none") = (reqs[m].h.writes = "none")) =>
            /\ reqs[n].status = reqs[m].status
            /\ reqs[n].body = reqs[m].body
            /\ IF reqs[n].h.writes = "none"
               THEN reqs[n].status = 500 /\ reqs[n].body = GenericBody
               ELSE reqs[n].status = 200 /\ reqs[n].body = OkBody

C3_Witness ==
    \E n, m \in Requests :
        /\ version = 3 /\ middleware = "apiError"
        /\ Faulted(n) /\ Faulted(m)
        /\ reqs[n].h.writes = "none" /\ reqs[m].h.writes = "none"
        /\ reqs[n].h.fault = PlainError("db down", 503, 502)
        /\ reqs[m].h.fault = PlainError("secret", 0, 0)
        /\ reqs[n].body = reqs[m].body
        /\ reqs[n].status = 500

ErrorResponse(n) ==
    /\ reqs[n].sent
    /\ reqs[n].writers = <<"middleware">>
    /\ "success" \in reqs[n].body.fields
    /\ reqs[n].body.success = FALSE

\* C5 (as claimed): under the forwarding asyncHandler every request whose
\* handler faults is answered with an error response.
C5_Original ==
    \A n \in Requests : (version = 3 /\ Faulted(n)) => ErrorResponse(n)

\* C5 (amended): under the forwarding asyncHandler no fault of a handler
\* ends the process or is left as an unhandled rejection; a request whose
\* handler faults is answered, with an error response unless the handler
\* had already sent its own; the process keeps listening, a request not yet
\* received is untouched, and a request in flight keeps its own
\* continuation on its own req, res and next.
C5_Theorem ==
    version = 3 =>
        /\ (\E n \in Requests : reqs[n].pc # "new") => proc = "listening"
        /\ \A n \in Requests :
              /\ ~reqs[n].unhandled
              /\ Faulted(n) =>
                    IF reqs[n].h.writes = "none" THEN ErrorResponse(n)
                    ELSE /\ reqs[n].sent /\ reqs[n].writers = <<"handler">>
                         /\ reqs[n].status = 200 /\ reqs[n].body = OkBody
              /\ reqs[n].pc = "new" => reqs[n] = NewReq
              /\ reqs[n].pc = "pending" =>
                    /\ reqs[n].innerCalls = 1
                    /\ reqs[n].reactions = <<[k |-> "catch", a |-> OwnArgs(n)]>>
              /\ \A i \in DOMAIN reqs[n].innerArgs : reqs[n].innerArgs[i] = OwnArgs(n)
              /\ \A i \in DOMAIN reqs[n].nextCalls : reqs[n].nextCalls[i].via = n

C5_Witness ==
    \E n, m \in Requests :
        /\ n # m /\ version = 3 /\ proc = "listening"
        /\ Faulted(n) /\ ErrorResponse(n)
        /\ Completed(m) /\ reqs[m].h.writes = "late" /\ reqs[m].body = OkBody

\* C6: asyncHandler applied to a request handler yields a callable handler
\* which, invoked, invokes the inner handler exactly once, in every version.
C6_EveryVersionCallable ==
    /\ \A d \in DOMAIN routes : routes[d].callable
    /\ \A n \in Requests : Done(n) => reqs[n].innerCalls = 1

\* C7: when the inner handler completes normally the wrapper does nothing
\* more: no next, no status or body of its own, and the response is exactly
\* what the inner handler wrote (nothing if it wrote nothing).
C7_NoActionOnSuccess ==
    \A n \in Requests :
        Completed(n) =>
            /\ reqs[n].nextCalls = <<>>
            /\ reqs[n].mwRuns = 0
            /\ reqs[n].failedWrites = <<>>
            /\ ~reqs[n].escaped /\ ~reqs[n].unhandled
            /\ IF reqs[n].h.writes = "none"
               THEN ~reqs[n].sent /\ reqs[n].writers = <<>> /\ reqs[n].body = NoBody
               ELSE /\ reqs[n].sent /\ reqs[n].writers = <<"handler">>
                    /\ reqs[n].status = 200 /\ reqs[n].body = OkBody

C7_Witness ==
    \E n \in Requests :
        /\ version = 3 /\ Completed(n)
        /\ reqs[n].h.kind = "resolve" /\ reqs[n].h.writes = "late"
        /\ reqs[n].body = OkBody /\ reqs[n].nextCalls = <<>>

\* what a client and the framework can see of one handled request
Observable(n) ==
    [innerCalls |-> reqs[n].innerCalls,
     sent |-> reqs[n].sent, status |-> reqs[n].status, body |-> reqs[n].body,
     writers |-> reqs[n].writers,
     forwarded |-> [i \in DOMAIN reqs[n].nextCalls |-> reqs[n].nextCalls[i].err],
     mwRuns |-> reqs[n].mwRuns,
     escaped |-> reqs[n].escaped, unhandled |-> reqs[n].unhandled]

\* C8: a handler wrapped twice (or more) behaves as the same handler
\* wrapped once: the inner handler runs once, a normal completion adds
\* nothing, and a fault is forwarded or answered once.
C8_WrapIdempotent ==
    \A n, m \in Requests :
        (/\ Done(n) /\ Done(m)
         /\ reqs[n].h = reqs[m].h
         /\ reqs[n].depth = 1 /\ reqs[m].depth > 1) =>
            /\ Observable(m) = Observable(n)
            /\ reqs[m].innerCalls = 1
            /\ Len(reqs[m].nextCalls) <= 1
            /\ Len(reqs[m].writers) <= 1 \/ ~Faulting(reqs[m].h)

C8_Witness ==
    \E n, m \in Requests :
        /\ Faulted(n) /\ Faulted(m)
        /\ reqs[n].h = reqs[m].h /\ reqs[n].h.kind = "reject"
        /\ reqs[n].depth = 1 /\ reqs[m].depth = 2
        /\ version = 3
        /\ Len(reqs[m].nextCalls) = 1

\* C9: the inner handler receives the req, res and next the wrapper was
\* called with, and a fault is forwarded through that same next.
C9_ArgumentsPreserved ==
    \A n \in Requests :
        /\ reqs[n].innerCalls > 0 => reqs[n].innerArgs = <<OwnArgs(n)>>
        /\ \A i \in DOMAIN reqs[n].nextCalls : reqs[n].nextCalls[i].via = n

C9_Witness ==
    \E n \in Requests :
        /\ version = 3 /\ Faulted(n) /\ reqs[n].depth = 2
        /\ reqs[n].innerArgs = <<OwnArgs(n)>>
        /\ reqs[n].nextCalls = <<[err |-> reqs[n].h.fault, via |-> n]>>

\* C10: the success flag of every ApiResponse is TRUE when its status code
\* is below 400 and FALSE when it is 400 or more, whatever data and message.
C10_SuccessIffBelow400 ==
    \A i \in DOMAIN lastResponse :
        LET x == lastResponse[i]
        IN  /\ x.statusCode <= 399 => x.obj.success = TRUE
            /\ x.statusCode >= 400 => x.obj.success = FALSE

C10_Witness ==
    /\ lastResponse # <<>>
    /\ lastResponse[1].statusCode = 400
    /\ lastResponse[1].data # Null
    /\ lastResponse[1].message # NoArg
    /\ lastResponse[1].obj.success = FALSE

\* C11: an ApiResponse built from a status code and data without a message
\* has the message "Success"; built with a message it has that message; its
\* statusCode and data are the values supplied, a null data included.
C11_MessageDefaultsToSuccess ==
    \A i \in DOMAIN lastResponse :
        LET x == lastResponse[i]
        IN  /\ x.message = NoArg => x.obj.message = "Success"
            /\ x.message # NoArg => x.obj.message = x.message[1]
            /\ x.obj.statusCode = x.statusCode
            /\ x.obj.data = x.data

C11_Witness ==
    /\ lastResponse # <<>>
    /\ lastResponse[1].message = NoArg
    /\ lastResponse[1].data = Null
    /\ lastResponse[1].obj.message = "Success"
    /\ lastResponse[1].obj.data = Null

\* C12: an ApiError built without a message has the message
\* "Something Went Wrong"; built with a message it has that message.
C12_MessageDefault ==
    \A i \in DOMAIN lastError :
        LET x == lastError[i]
        IN  /\ x.message = NoArg => x.obj.message = "Something Went Wrong"
            /\ x.message # NoArg => x.obj.message = x.message[1]

C12_Witness ==
    /\ lastError # <<>>
    /\ lastError[1].message = NoArg
    /\ lastError[1].obj.message = "Something Went Wrong"

\* C13: every ApiError has success FALSE and data null, its errors are the
\* list supplied or the empty list when none was supplied, and its statusCode
\* is the one supplied, also when that code is below 400.
C13_FailureShape ==
    \A i \in DOMAIN lastError :
        LET x == lastError[i]
        IN  /\ x.obj.success = FALSE
            /\ x.obj.data = Null
            /\ x.errors = NoArg => x.obj.errors = <<>>
            /\ x.errors # NoArg => x.obj.errors = x.errors[1]
            /\ x.obj.statusCode = x.statusCode

C13_Witness ==
    /\ lastError # <<>>
    /\ lastError[1].statusCode = 200
    /\ lastError[1].errors = NoArg
    /\ lastError[1].obj.success = FALSE
    /\ lastError[1].obj.statusCode = 200
    /\ lastError[1].obj.errors = <<>>

\* C14: an ApiError built with a trace (a non-empty stack argument) carries
\* exactly that trace; built without one (stack omitted, or the empty string
\* that is the parameter's default) it carries the trace captured at the
\* construction; every construction is in exactly one of the two cases.
SuppliedTrace(x) == x.stack # NoArg /\ x.stack[1] # ""

C14_SuppliedOrCapturedTrace ==
    \A i \in DOMAIN lastError :
        LET x == lastError[i]
        IN  /\ SuppliedTrace(x) => x.obj.stack = x.stack[1]
            /\ ~SuppliedTrace(x) => x.obj.stack = CapturedStack
            /\ x.obj.stack # ""

C14_Witness ==
    /\ lastError # <<>>
    /\ lastError[1].stack = Arg("trace from caller")
    /\ lastError[1].obj.stack = "trace from caller"

\* C15: a save started while the password path is unmodified does not hash
\* and leaves the field as it was; between two assignments of the password
\* the saves hash at most once in all; a save started after a change of the
\* password whose hook completes hashes exactly once.
SaveOver == user.lastSave.outcome \in {"saved", "writeError"}

C15_HashOnlyWhenModified ==
    /\ (user.lastSave.outcome # "none" /\ ~user.lastSave.wasModified)
          => /\ user.lastSave.hashed = 0
             /\ user.lastSave.after = user.lastSave.before
    /\ user.sinceChange <= 1
    /\ (SaveOver /\ user.lastSave.wasModified) => user.lastSave.hashed = 1

\* C16: the password of the stored record is always a hash, never a
\* plaintext that was assigned.
C16_StoredPasswordIsHash ==
    \A i \in DOMAIN user.stored :
        /\ IsHash(user.stored[i].password)
        /\ \A p \in user.assigned : user.stored[i].password # Plain(p)

C16_Witness ==
    /\ user.stored # <<>>
    /\ user.saves >= 2
    /\ user.assigned = Plains
    /\ user.lastSave.outcome = "saved"
    /\ user.lastSave.wasModified
    /\ IsHash(user.stored[1].password)

\* C17: when the hashing fails the save is aborted: it ends with the
\* hashing's failure, and the stored record and the document's password are
\* what they were before the save.
C17_HashFailureAbortsSave ==
    user.lastSave.hashFailed =>
        /\ user.lastSave.outcome = "hashError"
        /\ user.lastSave.storedAfter = user.lastSave.storedBefore
        /\ user.lastSave.after = user.lastSave.before

C17_Witness ==
    /\ user.lastSave.hashFailed
    /\ user.lastSave.outcome = "hashError"
    /\ user.lastSave.storedAfter = user.lastSave.storedBefore
    /\ user.pc = "idle"
    /\ "fullName" \in user.doc.modified
    /\ user.stored # <<>>
    /\ user.stored[1].fullName # user.doc.fullName
    /\ ~IsHash(user.doc.password)

\* C18: isPasswordCorrect(p) returns TRUE exactly when p is the plaintext
\* that went into the most recent hashing, and FALSE for every other
\* candidate, an earlier password and the hash string included.
PasswordChecks == {i \in DOMAIN user.lastCall :
                      user.lastCall[i].method = "isPasswordCorrect"}

C19_TokenPayloadAndKey ==
    \A i \in DOMAIN user.lastCall :
        LET c == user.lastCall[i]
        IN  /\ c.method = "generateAccessToken" =>
                 /\ DOMAIN c.result.payload = {"_id", "email", "username", "fullName"}
                 /\ c.result.payload._id = UserId
                 /\ c.result.payload.email = UserEmail
                 /\ c.result.payload.username = UserName
                 /\ c.result.payload.fullName = user.doc.fullName
                 /\ c.result.secret = Env.ACCESS_TOKEN_SECRET
                 /\ c.result.expiresIn = Env.ACCESS_TOKEN_EXPIRY
            /\ c.method = "generateRefreshToken" =>
                 /\ DOMAIN c.result.payload = {"_id"}
                 /\ c.result.payload._id = UserId
                 /\ c.result.secret = Env.REFRESH_TOKEN_SECRET
                 /\ c.result.secret # Env.ACCESS_TOKEN_SECRET
                 /\ c.result.expiresIn = Env.REFRESH_TOKEN_EXPIRY

C19_Witness ==
    /\ user.lastCall # <<>>
    /\ user.lastCall[1].method = "generateRefreshToken"
    /\ user.lastCall[1].result.payload = [_id |-> UserId]
    /\ user.lastCall[1].result.secret = Env.REFRESH_TOKEN_SECRET
    /\ "fullName" \in user.doc.modified

\* C20: uploadOnCloudinary called with no local path (not passed, or null)
\* or with the empty path returns null: it does not throw, it makes no
\* remote call and it touches no local file.
NoPath == {NoArg, Arg(Null), Arg("")}

C21_FailedUploadDeletesFile ==
    \A c \in Uploads :
        (upload.calls[c].pc = "done" /\ upload.calls[c].existed
            /\ upload.calls[c].failed) =>
            /\ upload.calls[c].result = "null"
            /\ ~upload.calls[c].leftBehind

\* C22: the promise uploadOnCloudinary returns never rejects: it resolves
\* to the host's response when the upload succeeded and to null otherwise,
\* whatever the path, the upload's outcome and the deletion's outcome.
C22_NeverRejects ==
    \A c \in Uploads :
        upload.calls[c].pc = "done" =>
            /\ upload.calls[c].result \in {"response", "null"}
            /\ upload.calls[c].result = "response" <=> ~upload.calls[c].failed
                                                      /\ upload.calls[c].host # <<>>

\* C28: the cleanup of a failed upload never deletes the temporary file
\* that another call in flight is uploading, also when both requests' files
\* had the same original name.
C28_CleanupOnlyOwnFile ==
    \A c \in Uploads : upload.calls[c].removedFrom = {}

C23_ConnectFailureExits ==
    db.failed =>
        /\ proc = "exited"
        /\ exitCode = 1
        /\ \A n \in Requests : reqs[n].pc = "new"

C23_Witness ==
    /\ db.failed
    /\ db.attempts = 1
    /\ proc = "exited"
    /\ exitCode = 1

\* C24: the process listens, and handles requests, only after the one
\* connection attempt has succeeded; the connection is never attempted twice.
C24_ListenAfterConnect ==
    /\ db.attempts <= 1
    /\ (proc = "listening" \/ \E n \in Requests : reqs[n].pc # "new") =>
          /\ db.attempts = 1
          /\ db.connected
          /\ ~db.failed

C24_Witness ==
    /\ proc = "listening"
    /\ db.connected
    /\ db.attempts = 1
    /\ \E n \in Requests : Done(n) /\ reqs[n].sent

\* C25: every POST /register, whatever its body, is answered with status
\* 200 and the body {message: "ok"}, by exactly one response.
Registered(n) == reqs[n].pc \in {"pending", "done"} /\ reqs[n].h = RegisterUser
Refused(n) == reqs[n].pc = "refused"

C25_Original ==
    \A n \in Requests :
        (Registered(n) \/ Refused(n)) =>
            /\ reqs[n].status = 200
            /\ reqs[n].body = OkBody
            /\ reqs[n].writers = <<"handler">>

\* C25 amended: every POST /register whose body express.json lets through
\* is answered with status 200 and the body {message: "ok"}, by exactly one
\* response; a body the parser refuses is answered by the error-handling
\* middleware with a status of 400 or more and registerUser is not called.
C25_Theorem ==
    \A n \in Requests :
        /\ Registered(n) =>
              /\ reqs[n].sent
              /\ reqs[n].status = 200
              /\ reqs[n].body = OkBody
              /\ reqs[n].writers = <<"handler">>
              /\ reqs[n].failedWrites = <<>>
        /\ Refused(n) =>
              /\ reqs[n].status >= 400
              /\ reqs[n].writers = <<"middleware">>
              /\ reqs[n].innerCalls = 0

C25_Witness ==
    \E n \in Requests :
        /\ Done(n)
        /\ reqs[n].h = RegisterUser
        /\ version = 3
        /\ reqs[n].depth = 1
        /\ reqs[n].status = 200
        /\ reqs[n].body = OkBody

\* C27: no request gets a second response: when the inner handler has
\* answered and then throws or rejects, the answer of the request stays the
\* handler's and neither the wrapper nor the middleware adds another.
C27_AtMostOneResponse ==
    \A n \in Requests :
        /\ Len(reqs[n].writers) <= 1
        /\ (Done(n) /\ reqs[n].h.writes # "none") =>
              /\ reqs[n].writers = <<"handler">>
              /\ reqs[n].status = 200
              /\ reqs[n].body = OkBody

C27_Witness ==
    \E n \in Requests :
        /\ Faulted(n)
        /\ reqs[n].h.writes = "sync"
        /\ reqs[n].writers = <<"handler">>
        /\ reqs[n].failedWrites # <<>>
        /\ reqs[n].status = 200

Canon(w) == Lower(TrimRight(TrimLeft(w)))

Clash(docs, id, u, e) ==
    \E x \in docs : x.id # id /\ (Canon(x.username) = Canon(u)
                                    \/ Canon(x.email) = Canon(e))

C26_UniqueUsernameAndEmail ==
    /\ \A x, y \in coll.docs :
          x # y => /\ Canon(x.username) # Canon(y.username)
                   /\ Canon(x.email) # Canon(y.email)
    /\ LET op == coll.lastOp
       IN  (op.kind # "none" /\ Clash(op.before, op.id, op.username, op.email)) =>
              /\ op.outcome # "written"
              /\ coll.docs = op.before

C26_Witness ==
    /\ Cardinality(coll.docs) = 1
    /\ coll.lastOp.kind = "insert"
    /\ coll.lastOp.outcome = "duplicate"
    /\ coll.lastOp.username = <<"J", "o">>
    /\ coll.lastOp.email = <<" ", "j", "o", " ">>
    /\ coll.docs = coll.lastOp.before

====
